---------------------------- MODULE Spec2Model ----------------------------
(***************************************************************************)
(* State machine of the ThriveCare dashboard (src/app/src/app/page.tsx):   *)
(* the Home component's state (roster, role/actor/child selection, family  *)
(* updates), the TherapistLogForm's local state, the event handlers, and   *)
(* the values derived from the state on every render.                      *)
(*                                                                         *)
(* Texts are sequences of characters so that String.prototype.trim is      *)
(* computed, not assumed.  Percentages are integers; a ratio comparison    *)
(* current/target >= 0.8 is computed as 5*current >= 4*target (the IEEE    *)
(* quotient of two small integers is the double nearest the true ratio,    *)
(* and 0.8 / 0.55 are the doubles nearest 4/5 and 11/20).                  *)
(***************************************************************************)
EXTENDS Integers, Sequences, FiniteSets, TLC

VARIABLES
    children,             \* useState(initialSnapshot.children)
    therapists,           \* initialSnapshot.therapists (never reassigned)
    parents,              \* initialSnapshot.parents
    donors,               \* initialSnapshot.donors
    selectedRole,
    selectedTherapistId,
    selectedParentId,
    selectedDonorId,
    selectedChildId,
    familyUpdates,        \* Record<string, FamilyUpdate[]>: a function on the keys present
    form,                 \* TherapistLogForm instance: its key and selectedGoalIds
    earlyReturn,          \* the handler whose early return ended the last event, if any
    metrics,              \* the memoised values of the last render (useMemo over [children])
    probe                 \* the goal under test of the goal-engine specification

vars == << children, therapists, parents, donors, selectedRole,
           selectedTherapistId, selectedParentId, selectedDonorId,
           selectedChildId, familyUpdates, form, earlyReturn, metrics, probe >>

appVars == << children, therapists, parents, donors, selectedRole,
              selectedTherapistId, selectedParentId, selectedDonorId,
              selectedChildId, familyUpdates, form, earlyReturn, metrics >>

-----------------------------------------------------------------------------
(* Bounds of the model *)

\* sessions that may be logged on top of the snapshot's histories
MaxSessions == 1

\* family updates that may be posted
MaxUpdates == 2

\* largest goal target the goal-engine specification enumerates
MaxTarget == 20

-----------------------------------------------------------------------------
(* JavaScript values *)

\* the id an absent find() result stands for
Undefined == "undefined"

\* a JavaScript number: an integer, or NaN (the result of 0/0 and of every
\* arithmetic on it)
Num(v) == [nan |-> FALSE, value |-> v]

NaN == [nan |-> TRUE, value |-> 0]

Min(a, b) == IF a <= b THEN a ELSE b

\* Array.prototype.includes / some(x => x === v)
Includes(seq, v) == \E i \in 1..Len(seq) : seq[i] = v

\* index of the first element with the given id, 0 when there is none
\* (Array.prototype.find(x => x.id === id), undefined as index 0)
FindIndexById(seq, id) ==
    IF \E i \in 1..Len(seq) : seq[i].id = id
    THEN CHOOSE i \in 1..Len(seq) :
            /\ seq[i].id = id
            /\ \A j \in 1..(i - 1) : seq[j].id # id
    ELSE 0

\* String.prototype.trim on a sequence of characters
RECURSIVE TrimStart(_)
TrimStart(s) ==
    IF s # << >> /\ Head(s) = " " THEN TrimStart(Tail(s)) ELSE s

RECURSIVE TrimEnd(_)
TrimEnd(s) ==
    IF s # << >> /\ s[Len(s)] = " " THEN TrimEnd(SubSeq(s, 1, Len(s) - 1)) ELSE s

\* mutant: the text is tested and stored untrimmed
Mutant_Trim_identity(s) == s

Trim(s) == TrimEnd(TrimStart(s))

\* Math.round of the rational num/den (den > 0): floor(x + 1/2)
RoundDiv(num, den) == (2 * num + den) \div (2 * den)


-----------------------------------------------------------------------------
(* The initial snapshot (@/lib/mockData, read once at startup).  A goal    *)
(* carries id, current, target and status; a child id, therapists, goals,  *)
(* session history and upcoming sessions; an actor profile id and          *)
(* childIds.  Display-only fields (names, colours, labels, baseline) are   *)
(* copied untouched by every handler and are left out.                     *)

\* the day the dashboard is evaluated on (new Date())
Today == 100

Goal(id, current, target, status) ==
    [id |-> id, current |-> current, target |-> target, status |-> status]

Session(id, date, focus, goalIds, rating, notes, therapistId) ==
    [id |-> id, date |-> date, focus |-> focus, goalsWorkedOn |-> goalIds,
     rating |-> rating, notes |-> notes, therapistId |-> therapistId]

Child(id, ths, goals, history, upcoming) ==
    [id |-> id, therapists |-> ths, therapyGoals |-> goals,
     sessionHistory |-> history, upcomingSessions |-> upcoming]

Profile(id, childIds) == [id |-> id, childIds |-> childIds]

\* a practice with two therapists sharing a child
SnapshotClinic ==
    [children |-> <<
        Child("c1", << "t1" >>,
              << Goal("g1", 90, 100, "on_track"), Goal("g2", 50, 100, "at_risk") >>,
              << Session(0, Today - 9, << "i" >>, << "g1" >>, 4, << "n" >>, "t1") >>,
              << [id |-> "u1", childId |-> "c1", therapistId |-> "t1", date |-> Today + 1] >>),
        Child("c2", << "t1", "t2" >>,
              << Goal("g3", 72, 100, "needs_support") >>,
              << >>,
              << >>) >>,
     therapists |-> << Profile("t1", << "c1", "c2" >>), Profile("t2", << "c2" >>) >>,
     parents    |-> << >>,
     donors     |-> << Profile("d1", << "c2", "c1" >>) >>]

\* two families and two donors around one therapist
SnapshotFamily ==
    [children |-> <<
        Child("c1", << "t1" >>,
              << Goal("g1", 14, 20, "needs_support") >>,
              << >>,
              << >>),
        Child("c2", << >>,
              << Goal("g2", 9, 20, "at_risk") >>,
              << Session(0, Today - 7, << "i" >>, << "g2" >>, 2, << "n" >>, "t1") >>,
              << [id |-> "u3", childId |-> "c2", therapistId |-> "t1", date |-> Today + 3] >>) >>,
     therapists |-> << Profile("t1", << "c1" >>) >>,
     parents    |-> << Profile("p1", << "c1" >>), Profile("p2", << "c2", "c1" >>) >>,
     donors     |-> << Profile("d1", << "c2", "c1" >>), Profile("d2", << "c1" >>) >>]

\* a dataset with dangling references: a parent listing a child the roster
\* lacks, a therapist and a donor with nobody in the roster, a therapist
\* listing a child whose record does not list them, a child without goals
SnapshotDangling ==
    [children |-> <<
        Child("c1", << "t1", "t3" >>,
              << Goal("g1", 18, 20, "on_track") >>,
              << >>,
              << [id |-> "u2", childId |-> "c1", therapistId |-> "t1", date |-> Today + 2] >>),
        Child("c5", << "t1" >>, << >>, << >>, << >>) >>,
     therapists |-> << Profile("t1", << "c1", "c5" >>), Profile("t2", << >>),
                       Profile("t3", << "c5" >>) >>,
     parents    |-> << Profile("p1", << "c2", "c5" >>) >>,
     donors     |-> << Profile("d1", << "c9" >>), Profile("d2", << "c5", "c1" >>) >>]

\* a dataset with no children and no actors
SnapshotEmpty ==
    [children |-> << >>, therapists |-> << >>, parents |-> << >>, donors |-> << >>]

InitialSnapshots == { SnapshotClinic, SnapshotFamily, SnapshotDangling, SnapshotEmpty }

\* list[0]?.id ?? ""
FirstIdOrEmpty(list) == IF list = << >> THEN "" ELSE list[1].id

-----------------------------------------------------------------------------
(* Values derived from the state on every render *)

\* mutant: the first listed id, whether the roster holds it or not
Mutant_findFirstExistingChildId_first(roster, ids) ==
    IF ids = << >> THEN Undefined ELSE ids[1]

\* ids.find(childId => roster.some(child => child.id === childId))
findFirstExistingChildId(roster, ids) ==
    IF \E i \in 1..Len(ids) : FindIndexById(roster, ids[i]) # 0
    THEN ids[CHOOSE i \in 1..Len(ids) :
                /\ FindIndexById(roster, ids[i]) # 0
                /\ \A j \in 1..(i - 1) : FindIndexById(roster, ids[j]) = 0]
    ELSE Undefined

\* candidateId && roster.some(...) ? candidateId : roster[0]?.id ?? ""
ensureChildSelection(roster, candidateId) ==
    IF candidateId # Undefined /\ candidateId # "" /\ FindIndexById(roster, candidateId) # 0
    THEN candidateId
    ELSE FirstIdOrEmpty(roster)

\* childIds of the profile with the given id, << >> standing for
\* selectedX?.childIds being undefined (includes() then never holds)
ChildIdsOf(profiles, id) ==
    IF FindIndexById(profiles, id) = 0 THEN << >>
    ELSE profiles[FindIndexById(profiles, id)].childIds

FilteredChildren(roster, role, tid, pid, did) ==
    CASE role = "therapist" ->
            LET Keep(child) == Includes(child.therapists, tid)
            IN  SelectSeq(roster, Keep)
      [] role = "parent" ->
            LET Keep(child) == Includes(ChildIdsOf(parents, pid), child.id)
            IN  SelectSeq(roster, Keep)
      [] role = "donor" ->
            LET Keep(child) == Includes(ChildIdsOf(donors, did), child.id)
            IN  SelectSeq(roster, Keep)
      [] OTHER -> roster

filteredChildren ==
    FilteredChildren(children, selectedRole, selectedTherapistId,
                     selectedParentId, selectedDonorId)

\* id of selectedChild ?? filteredChildren[0] ?? children[0] ?? null
\* ("" for null)
ResolvedChildId(roster, role, tid, pid, did, cid) ==
    IF FindIndexById(roster, cid) # 0 THEN cid
    ELSE IF FilteredChildren(roster, role, tid, pid, did) # << >>
         THEN FilteredChildren(roster, role, tid, pid, did)[1].id
         ELSE FirstIdOrEmpty(roster)

resolvedChildId ==
    ResolvedChildId(children, selectedRole, selectedTherapistId,
                    selectedParentId, selectedDonorId, selectedChildId)

\* the child record with the given id (the id names a roster child)
ChildById(roster, id) == roster[FindIndexById(roster, id)]

-----------------------------------------------------------------------------
(* Dashboard metrics, each a useMemo over [children] *)

\* roster.flatMap(child => child.therapyGoals)
RECURSIVE FlatGoals(_)
FlatGoals(roster) ==
    IF roster = << >> THEN << >>
    ELSE Head(roster).therapyGoals \o FlatGoals(Tail(roster))

RECURSIVE TotalCurrent(_)
TotalCurrent(goals) ==
    IF goals = << >> THEN 0 ELSE Head(goals).current + TotalCurrent(Tail(goals))

\* mutant: the mean is truncated instead of rounded
Mutant_averageGoalProgress_truncated(roster) ==
    IF FlatGoals(roster) = << >> THEN 0
    ELSE TotalCurrent(FlatGoals(roster)) \div Len(FlatGoals(roster))

\* goals.length ? Math.round(total / goals.length) : 0
averageGoalProgress(roster) ==
    IF FlatGoals(roster) = << >> THEN 0
    ELSE RoundDiv(TotalCurrent(FlatGoals(roster)), Len(FlatGoals(roster)))

\* flatMap(...).filter(goal => goal.status !== "on_track").length
atRiskGoals(roster) ==
    LET NotOnTrack(goal) == goal.status # "on_track"
    IN  Len(SelectSeq(FlatGoals(roster), NotOnTrack))

\* roster.flatMap(child => child.sessionHistory)
RECURSIVE FlatSessions(_)
FlatSessions(roster) ==
    IF roster = << >> THEN << >>
    ELSE Head(roster).sessionHistory \o FlatSessions(Tail(roster))

\* weekAgo = new Date(); weekAgo.setDate(weekAgo.getDate() - 7)
weekAgo == Today - 7

\* mutant: the boundary instant itself is left out (> instead of >=)
Mutant_thisWeekSessions_exclusive(roster) ==
    LET Recent(session) == session.date > weekAgo
    IN  Len(SelectSeq(FlatSessions(roster), Recent))

\* flatMap(...).filter(session => new Date(session.date) >= weekAgo).length
thisWeekSessions(roster) ==
    LET Recent(session) == session.date >= weekAgo
    IN  Len(SelectSeq(FlatSessions(roster), Recent))

\* the values a render computes from the roster
ComputeMetrics(roster) ==
    [averageGoalProgress |-> averageGoalProgress(roster),
     atRiskGoals |-> atRiskGoals(roster),
     thisWeekSessions |-> thisWeekSessions(roster)]

\* mutant: the memoised values are never recomputed
Mutant_useMemo_stale(memoised, prevDeps, deps) == memoised

\* useMemo(..., [children]): the memoised values are kept while the roster is
\* the one of the previous render and recomputed otherwise (a handler that
\* changes the roster always installs a new array)
useMemo(memoised, prevDeps, deps) ==
    IF deps = prevDeps THEN memoised ELSE ComputeMetrics(deps)

-----------------------------------------------------------------------------
(* The TherapistLogForm instance.  It is rendered while the role is        *)
(* therapist, the selected therapist exists and a child is resolved, under *)
(* key = resolvedChild.id: React keeps its state while it stays rendered   *)
(* under the same key and mounts a fresh instance otherwise.               *)

NoForm == [key |-> "", selectedGoalIds |-> << >>]

\* child.therapyGoals.slice(0, 2).map(goal => goal.id)
InitialGoalIds(child) ==
    [i \in 1..Min(2, Len(child.therapyGoals)) |-> child.therapyGoals[i].id]

\* mutant: the form is rendered without a key, so its state survives a
\* change of the displayed child
Mutant_RenderForm_unkeyed(prev, roster, role, tid, pid, did, cid) ==
    LET rid == ResolvedChildId(roster, role, tid, pid, did, cid)
    IN  IF ~(role = "therapist" /\ FindIndexById(therapists, tid) # 0 /\ rid # "")
        THEN NoForm
        ELSE IF prev.key # ""
             THEN [prev EXCEPT !.key = rid]
             ELSE [key |-> rid,
                   selectedGoalIds |-> InitialGoalIds(ChildById(roster, rid))]

RenderForm(prev, roster, role, tid, pid, did, cid) ==
    LET rid == ResolvedChildId(roster, role, tid, pid, did, cid)
    IN  IF ~(role = "therapist" /\ FindIndexById(therapists, tid) # 0 /\ rid # "")
        THEN NoForm
        ELSE IF prev.key = rid
             THEN prev
             ELSE [key |-> rid,
                   selectedGoalIds |-> InitialGoalIds(ChildById(roster, rid))]

-----------------------------------------------------------------------------
(* Selection handlers *)

\* profiles.find(p => p.id === id) ?? profiles[0], as an index (0: undefined)
FallbackIndex(profiles, id) ==
    IF FindIndexById(profiles, id) # 0 THEN FindIndexById(profiles, id)
    ELSE IF profiles # << >> THEN 1 ELSE 0

\* ensureChildSelection(findFirstExistingChildId(profile.childIds))
FirstChildOf(profile) ==
    ensureChildSelection(children, findFirstExistingChildId(children, profile.childIds))

\* mutant: the switch to center focuses the roster's first child
Mutant_handleRoleSelect_centerResets(role) ==
    /\ selectedRole' = role
    /\ selectedChildId' = FirstIdOrEmpty(children)
    /\ earlyReturn' = "none"
    /\ UNCHANGED << children, familyUpdates, selectedTherapistId, selectedParentId,
                    selectedDonorId >>

\* mutant: a switch to a role always activates the first profile of its list
Mutant_handleRoleSelect_forgetsActor(role) ==
    /\ selectedRole' = role
    /\ CASE role = "therapist" /\ therapists # << >> ->
              /\ selectedTherapistId' = therapists[1].id
              /\ selectedChildId' = FirstChildOf(therapists[1])
              /\ UNCHANGED << selectedParentId, selectedDonorId >>
         [] role = "parent" /\ parents # << >> ->
              /\ selectedParentId' = parents[1].id
              /\ selectedChildId' = FirstChildOf(parents[1])
              /\ UNCHANGED << selectedTherapistId, selectedDonorId >>
         [] role = "donor" /\ donors # << >> ->
              /\ selectedDonorId' = donors[1].id
              /\ selectedChildId' = FirstChildOf(donors[1])
              /\ UNCHANGED << selectedTherapistId, selectedParentId >>
         [] role = "center" ->
              /\ selectedChildId' = ensureChildSelection(children, selectedChildId)
              /\ UNCHANGED << selectedTherapistId, selectedParentId, selectedDonorId >>
         [] OTHER ->
              UNCHANGED << selectedTherapistId, selectedParentId, selectedDonorId,
                           selectedChildId >>
    /\ earlyReturn' = "none"
    /\ UNCHANGED << children, familyUpdates >>

handleRoleSelect(role) ==
    /\ selectedRole' = role
    /\ CASE role = "therapist" ->
              LET k == FallbackIndex(therapists, selectedTherapistId)
              IN  /\ selectedTherapistId' =
                        IF k # 0 THEN therapists[k].id ELSE selectedTherapistId
                  /\ selectedChildId' =
                        IF k # 0 THEN FirstChildOf(therapists[k]) ELSE selectedChildId
                  /\ UNCHANGED << selectedParentId, selectedDonorId >>
         [] role = "parent" ->
              LET k == FallbackIndex(parents, selectedParentId)
              IN  /\ selectedParentId' =
                        IF k # 0 THEN parents[k].id ELSE selectedParentId
                  /\ selectedChildId' =
                        IF k # 0 THEN FirstChildOf(parents[k]) ELSE selectedChildId
                  /\ UNCHANGED << selectedTherapistId, selectedDonorId >>
         [] role = "donor" ->
              LET k == FallbackIndex(donors, selectedDonorId)
              IN  /\ selectedDonorId' =
                        IF k # 0 THEN donors[k].id ELSE selectedDonorId
                  /\ selectedChildId' =
                        IF k # 0 THEN FirstChildOf(donors[k]) ELSE selectedChildId
                  /\ UNCHANGED << selectedTherapistId, selectedParentId >>
         [] OTHER ->
              /\ selectedChildId' = ensureChildSelection(children, selectedChildId)
              /\ UNCHANGED << selectedTherapistId, selectedParentId, selectedDonorId >>
    /\ earlyReturn' = "none"
    /\ UNCHANGED << children, familyUpdates >>

\* the <select> is rendered in the therapist role and offers the therapists
handleTherapistChange(id) ==
    /\ selectedRole = "therapist"
    /\ selectedTherapistId' = id
    /\ selectedChildId' =
          IF FindIndexById(therapists, id) # 0
          THEN FirstChildOf(therapists[FindIndexById(therapists, id)])
          ELSE selectedChildId
    /\ earlyReturn' = "none"
    /\ UNCHANGED << children, familyUpdates, selectedRole, selectedParentId,
                    selectedDonorId >>

\* mutant: the parent changes and the focused child stays
Mutant_handleParentChange_keepsChild(id) ==
    /\ selectedRole = "parent"
    /\ selectedParentId' = id
    /\ earlyReturn' = "none"
    /\ UNCHANGED << children, familyUpdates, selectedRole, selectedTherapistId,
                    selectedDonorId, selectedChildId >>

handleParentChange(id) ==
    /\ selectedRole = "parent"
    /\ selectedParentId' = id
    /\ selectedChildId' =
          IF FindIndexById(parents, id) # 0
          THEN FirstChildOf(parents[FindIndexById(parents, id)])
          ELSE selectedChildId
    /\ earlyReturn' = "none"
    /\ UNCHANGED << children, familyUpdates, selectedRole, selectedTherapistId,
                    selectedDonorId >>

handleDonorChange(id) ==
    /\ selectedRole = "donor"
    /\ selectedDonorId' = id
    /\ selectedChildId' =
          IF FindIndexById(donors, id) # 0
          THEN FirstChildOf(donors[FindIndexById(donors, id)])
          ELSE selectedChildId
    /\ earlyReturn' = "none"
    /\ UNCHANGED << children, familyUpdates, selectedRole, selectedTherapistId,
                    selectedParentId >>

\* mutant: picking the focused child again clears the focus
Mutant_ChildBadgeSelect_toggles(id) ==
    /\ selectedChildId' = IF selectedChildId = id THEN "" ELSE id
    /\ earlyReturn' = "none"
    /\ UNCHANGED << children, familyUpdates, selectedRole, selectedTherapistId,
                    selectedParentId, selectedDonorId >>

\* ChildBadge onSelect: one badge per child of filteredChildren
ChildBadgeSelect(id) ==
    /\ selectedChildId' = id
    /\ earlyReturn' = "none"
    /\ UNCHANGED << children, familyUpdates, selectedRole, selectedTherapistId,
                    selectedParentId, selectedDonorId >>

-----------------------------------------------------------------------------
(* Goal progress *)

\* mutant: the status is carried over instead of being recomputed
Mutant_updateGoalStatus_stale(goal) == goal

\* mutant: the tier boundaries are exclusive (> instead of >=)
Mutant_updateGoalStatus_strict(goal) ==
    [goal EXCEPT !.status =
        IF 5 * goal.current > 4 * goal.target THEN "on_track"
        ELSE IF 20 * goal.current > 11 * goal.target THEN "needs_support"
        ELSE "at_risk"]

\* ratio >= 0.8 -> on_track, ratio >= 0.55 -> needs_support, else at_risk
updateGoalStatus(goal) ==
    [goal EXCEPT !.status =
        IF 5 * goal.current >= 4 * goal.target THEN "on_track"
        ELSE IF 20 * goal.current >= 11 * goal.target THEN "needs_support"
        ELSE "at_risk"]

\* mutant: Math.floor instead of Math.round
Mutant_Increment_floor(rating) == (rating * 8) \div 5

\* mutant: the fifth of the rating is rounded before it is scaled
Mutant_Increment_roundsFirst(rating) == RoundDiv(rating, 5) * 8

\* Math.round((rating / 5) * 8)
Increment(rating) == RoundDiv(rating * 8, 5)

\* mutant: newCurrent is added to the goal's current instead of replacing it
Mutant_Reclassify_additive(goal, newCurrent) ==
    updateGoalStatus([goal EXCEPT !.current = Min(goal.target, goal.current + newCurrent)])

\* mutant: the new current is not clamped at the target
Mutant_Reclassify_unclamped(goal, newCurrent) ==
    updateGoalStatus([goal EXCEPT !.current = newCurrent])

\* updateGoalStatus({ ...goal, current: Math.min(goal.target, newCurrent) })
Reclassify(goal, newCurrent) ==
    updateGoalStatus([goal EXCEPT !.current = Min(goal.target, newCurrent)])

\* child.therapyGoals.map(...) of handleAddSession
UpdatedGoals(goals, goalIds, rating) ==
    [i \in 1..Len(goals) |->
        IF ~Includes(goalIds, goals[i].id) THEN goals[i]
        ELSE Reclassify(goals[i], goals[i].current + Increment(rating))]

RECURSIVE SumLen(_)
SumLen(seqs) == IF seqs = << >> THEN 0 ELSE Len(Head(seqs)) + SumLen(Tail(seqs))

\* sessions logged since startup (the snapshot's own sessions carry id 0)
LoggedSessions(roster) ==
    LET Logged(session) == session.id # 0
    IN  SumLen([i \in 1..Len(roster) |-> SelectSeq(roster[i].sessionHistory, Logged)])

\* family updates posted since startup
PostedUpdates(updates) ==
    LET keys == DOMAIN updates
    IN  IF keys = {} THEN 0
        ELSE LET RECURSIVE Total(_)
                 Total(ks) == IF ks = {} THEN 0
                              ELSE LET k == CHOOSE x \in ks : TRUE
                                   IN  Len(updates[k]) + Total(ks \ {k})
             IN  Total(keys)

\* createClientId(): an id no record of the same kind carries yet
createClientId(issued) == issued + 1

\* "No additional notes recorded."
NotesPlaceholder == << "No additional notes recorded." >>

\* mutant: the session is put behind the child's history
Mutant_RosterWithSession_appends(prev, childId, session) ==
    [i \in 1..Len(prev) |->
        IF prev[i].id # childId THEN prev[i]
        ELSE [prev[i] EXCEPT
                !.therapyGoals = UpdatedGoals(@, session.goalsWorkedOn, session.rating),
                !.sessionHistory = @ \o << session >>]]

\* mutant: the new session replaces the child's history
Mutant_RosterWithSession_replaces(prev, childId, session) ==
    [i \in 1..Len(prev) |->
        IF prev[i].id # childId THEN prev[i]
        ELSE [prev[i] EXCEPT
                !.therapyGoals = UpdatedGoals(@, session.goalsWorkedOn, session.rating),
                !.sessionHistory = << session >>]]

\* setChildren(prev => prev.map(...)) of handleAddSession
RosterWithSession(prev, childId, session) ==
    [i \in 1..Len(prev) |->
        IF prev[i].id # childId THEN prev[i]
        ELSE [prev[i] EXCEPT
                !.therapyGoals = UpdatedGoals(@, session.goalsWorkedOn, session.rating),
                !.sessionHistory = << session >> \o @]]

handleAddSession(childId, focus, notes, rating, date, goalIds, therapistId) ==
    IF Trim(focus) = << >>
    THEN /\ earlyReturn' = "handleAddSession"
         /\ UNCHANGED children
    ELSE /\ children' =
              RosterWithSession(children, childId,
                  Session(createClientId(LoggedSessions(children)), date, Trim(focus),
                          goalIds, rating,
                          IF Trim(notes) = << >> THEN NotesPlaceholder ELSE Trim(notes),
                          therapistId))
         /\ earlyReturn' = "none"

\* mutant: handleSubmit without its check of selectedGoalIds.length
Mutant_TherapistLogFormSubmit_unguarded(focus, notes, rating, date) ==
    /\ form.key # ""
    /\ handleAddSession(resolvedChildId, focus, notes, rating, date,
                        form.selectedGoalIds, selectedTherapistId)
    /\ UNCHANGED << familyUpdates, selectedRole, selectedTherapistId,
                    selectedParentId, selectedDonorId, selectedChildId >>

\* TherapistLogForm.handleSubmit: child = resolvedChild, therapist = selectedTherapist
TherapistLogFormSubmit(focus, notes, rating, date) ==
    /\ form.key # ""
    /\ IF form.selectedGoalIds = << >>
       THEN /\ earlyReturn' = "handleSubmit"
            /\ UNCHANGED children
       ELSE handleAddSession(resolvedChildId, focus, notes, rating, date,
                             form.selectedGoalIds, selectedTherapistId)
    /\ UNCHANGED << familyUpdates, selectedRole, selectedTherapistId,
                    selectedParentId, selectedDonorId, selectedChildId >>

\* TherapistLogForm.toggleGoal: one chip per goal of the form's child
toggleGoal(selected, goalId) ==
    IF Includes(selected, goalId)
    THEN LET Other(id) == id # goalId IN SelectSeq(selected, Other)
    ELSE Append(selected, goalId)

-----------------------------------------------------------------------------
(* Family updates *)

\* prev[childId] ?? []
UpdatesOf(updates, childId) ==
    IF childId \in DOMAIN updates THEN updates[childId] ELSE << >>

\* mutant: the new entry is appended instead of prepended
Mutant_handleAddFamilyUpdate_append(childId, message) ==
    /\ IF Trim(message) = << >>
       THEN /\ earlyReturn' = "handleAddFamilyUpdate"
            /\ UNCHANGED familyUpdates
       ELSE /\ familyUpdates' =
                 [k \in DOMAIN familyUpdates \cup {childId} |->
                     IF k = childId
                     THEN UpdatesOf(familyUpdates, childId)
                          \o << [id |-> createClientId(PostedUpdates(familyUpdates)),
                                 message |-> Trim(message), date |-> Today] >>
                     ELSE familyUpdates[k]]
            /\ earlyReturn' = "none"
    /\ UNCHANGED << children, selectedRole, selectedTherapistId,
                    selectedParentId, selectedDonorId, selectedChildId >>

\* mutant: posting rebuilds the child's roster record and drops its upcoming sessions
Mutant_handleAddFamilyUpdate_roster(childId, message) ==
    /\ IF Trim(message) = << >>
       THEN /\ earlyReturn' = "handleAddFamilyUpdate"
            /\ UNCHANGED << familyUpdates, children >>
       ELSE /\ familyUpdates' =
                 [k \in DOMAIN familyUpdates \cup {childId} |->
                     IF k = childId
                     THEN << [id |-> createClientId(PostedUpdates(familyUpdates)),
                              message |-> Trim(message), date |-> Today] >>
                          \o UpdatesOf(familyUpdates, childId)
                     ELSE familyUpdates[k]]
            /\ children' =
                 [i \in 1..Len(children) |->
                     IF children[i].id # childId THEN children[i]
                     ELSE [children[i] EXCEPT !.upcomingSessions = << >>]]
            /\ earlyReturn' = "none"
    /\ UNCHANGED << selectedRole, selectedTherapistId,
                    selectedParentId, selectedDonorId, selectedChildId >>

handleAddFamilyUpdate(childId, message) ==
    /\ IF Trim(message) = << >>
       THEN /\ earlyReturn' = "handleAddFamilyUpdate"
            /\ UNCHANGED familyUpdates
       ELSE /\ familyUpdates' =
                 [k \in DOMAIN familyUpdates \cup {childId} |->
                     IF k = childId
                     THEN << [id |-> createClientId(PostedUpdates(familyUpdates)),
                              message |-> Trim(message), date |-> Today] >>
                          \o UpdatesOf(familyUpdates, childId)
                     ELSE familyUpdates[k]]
            /\ earlyReturn' = "none"
    /\ UNCHANGED << children, selectedRole, selectedTherapistId,
                    selectedParentId, selectedDonorId, selectedChildId >>

-----------------------------------------------------------------------------
(* Donor panel *)

RECURSIVE SumCurrent(_)
SumCurrent(goals) ==
    IF goals = << >> THEN 0 ELSE Head(goals).current + SumCurrent(Tail(goals))

\* the sum over the children of (sum of current / number of goals), as the
\* exact fraction << numerator, denominator >>
RECURSIVE SumOfMeans(_)
SumOfMeans(kids) ==
    IF kids = << >> THEN << 0, 1 >>
    ELSE LET rest == SumOfMeans(Tail(kids))
             n    == Len(Head(kids).therapyGoals)
         IN  << SumCurrent(Head(kids).therapyGoals) * rest[2] + rest[1] * n,
                n * rest[2] >>

\* DonorImpactPanel.averageProgress; 0 / 0 is NaN and stays NaN through
\* the sum, the division and Math.round
DonorAverageProgress(donor, childProfiles) ==
    LET Supported(child) == Includes(donor.childIds, child.id)
        supportedChildren == SelectSeq(childProfiles, Supported)
    IN  IF supportedChildren = << >> THEN Num(0)
        ELSE IF \E i \in 1..Len(supportedChildren) :
                    supportedChildren[i].therapyGoals = << >>
             THEN NaN
             ELSE Num(RoundDiv(SumOfMeans(supportedChildren)[1],
                               SumOfMeans(supportedChildren)[2] * Len(supportedChildren)))

-----------------------------------------------------------------------------
(* Inputs the user can enter *)

RoleKeys == { "center", "therapist", "parent", "donor" }

\* the range input: min 1, max 5
Ratings == 1..5

FocusTexts == { << " " >>, << " ", "a", " " >> }

NoteTexts == { << " " >> }

MessageTexts == { << " " >>, << "h", " " >> }

\* the date input: the day before the week's window opens, and a future day
FormDates == { Today - 8, Today + 1 }

Ids(profiles) == { profiles[i].id : i \in 1..Len(profiles) }

-----------------------------------------------------------------------------
(* The dashboard *)

NoProbe == [goal |-> Goal("g0", 0, 1, "at_risk"), newCurrent |-> 0, applied |-> FALSE]

Init ==
    \E snap \in InitialSnapshots :
        /\ children = snap.children
        /\ therapists = snap.therapists
        /\ parents = snap.parents
        /\ donors = snap.donors
        /\ selectedRole = "center"
        /\ selectedTherapistId = FirstIdOrEmpty(snap.therapists)
        /\ selectedParentId = FirstIdOrEmpty(snap.parents)
        /\ selectedDonorId = FirstIdOrEmpty(snap.donors)
        /\ selectedChildId = FirstIdOrEmpty(snap.children)
        /\ familyUpdates = [k \in {} |-> << >>]
        /\ form = NoForm
        /\ earlyReturn = "none"
        /\ metrics = ComputeMetrics(snap.children)
        /\ probe = NoProbe

\* the render that follows a handler: the form instance kept or mounted afresh
Render(prevForm) ==
    /\ form' = RenderForm(prevForm, children', selectedRole', selectedTherapistId',
                          selectedParentId', selectedDonorId', selectedChildId')
    /\ metrics' = useMemo(metrics, children, children')
    /\ UNCHANGED << therapists, parents, donors, probe >>

RoleSelectTo(role) == handleRoleSelect(role) /\ Render(form)

RoleSelect == \E role \in RoleKeys : RoleSelectTo(role)

TherapistChange ==
    \E id \in Ids(therapists) : handleTherapistChange(id) /\ Render(form)

ParentChange ==
    \E id \in Ids(parents) : handleParentChange(id) /\ Render(form)

DonorChange ==
    \E id \in Ids(donors) : handleDonorChange(id) /\ Render(form)

ChildPick ==
    \E id \in Ids(filteredChildren) : ChildBadgeSelect(id) /\ Render(form)

ToggleGoal ==
    /\ form.key # ""
    /\ earlyReturn' = "none"
    /\ UNCHANGED << children, familyUpdates, selectedRole, selectedTherapistId,
                    selectedParentId, selectedDonorId, selectedChildId >>
    /\ \E goalId \in Ids(ChildById(children, resolvedChildId).therapyGoals) :
          Render([form EXCEPT !.selectedGoalIds = toggleGoal(@, goalId)])

SubmitSessionWith(focus, notes, rating, date) ==
    /\ (form.selectedGoalIds # << >> /\ Trim(focus) # << >>)
          => LoggedSessions(children) < MaxSessions
    /\ TherapistLogFormSubmit(focus, notes, rating, date)
    /\ Render(form)

SubmitSession ==
    \E focus \in FocusTexts, notes \in NoteTexts, rating \in Ratings, date \in FormDates :
        SubmitSessionWith(focus, notes, rating, date)

\* ParentUpdatePanel.handleSubmit: rendered in the parent role while a child
\* is resolved and the selected parent exists
SubmitFamilyUpdateWith(message) ==
    /\ selectedRole = "parent"
    /\ resolvedChildId # ""
    /\ FindIndexById(parents, selectedParentId) # 0
    /\ Trim(message) # << >> => PostedUpdates(familyUpdates) < MaxUpdates
    /\ handleAddFamilyUpdate(resolvedChildId, message)
    /\ Render(form)

SubmitFamilyUpdate == \E message \in MessageTexts : SubmitFamilyUpdateWith(message)

Next ==
    \/ RoleSelect
    \/ TherapistChange
    \/ ParentChange
    \/ DonorChange
    \/ ChildPick
    \/ ToggleGoal
    \/ SubmitSession
    \/ SubmitFamilyUpdate

Spec == Init /\ [][Next]_vars

-----------------------------------------------------------------------------
(* The goal engine on its own: every goal with a positive target up to     *)
(* MaxTarget, reclassified with every newCurrent the increments can reach. *)

Statuses == { "on_track", "needs_support", "at_risk" }

\* the largest increment a session adds (rating 5)
MaxIncrement == Increment(5)

EngineInit ==
    /\ children = << >>
    /\ therapists = << >>
    /\ parents = << >>
    /\ donors = << >>
    /\ selectedRole = "center"
    /\ selectedTherapistId = ""
    /\ selectedParentId = ""
    /\ selectedDonorId = ""
    /\ selectedChildId = ""
    /\ familyUpdates = [k \in {} |-> << >>]
    /\ form = NoForm
    /\ earlyReturn = "none"
    /\ metrics = ComputeMetrics(<< >>)
    /\ \E t \in 1..MaxTarget, s \in Statuses :
          \E c \in 0..t :
             probe = [goal |-> Goal("g0", c, t, s), newCurrent |-> c, applied |-> FALSE]

EngineReclassify ==
    /\ \E n \in 0..(MaxTarget + MaxIncrement) :
          probe' = [goal |-> Reclassify(probe.goal, n), newCurrent |-> n, applied |-> TRUE]
    /\ UNCHANGED appVars

EngineNext == EngineReclassify

SpecEngine == EngineInit /\ [][EngineNext]_vars

-----------------------------------------------------------------------------
(* One goal under a run of sessions that address it: each step is the      *)
(* update handleAddSession applies to an addressed goal, for some rating.   *)
(* The weak fairness says that sessions addressing the goal keep being      *)
(* logged, which is the premise under which progress is said to converge.   *)

ProgressSession ==
    /\ \E rating \in Ratings :
          probe' = [goal |-> UpdatedGoals(<< probe.goal >>, << probe.goal.id >>, rating)[1],
                    newCurrent |-> probe.goal.current + Increment(rating),
                    applied |-> TRUE]
    /\ UNCHANGED appVars

ProgressNext == ProgressSession

SpecProgress == EngineInit /\ [][ProgressNext]_vars /\ WF_vars(ProgressSession)

-----------------------------------------------------------------------------
(* Properties *)

\* the three-tier rule of the data model: on_track from 80 % of the target,
\* needs_support from 55 %, at_risk below
TierOf(current, target) ==
    IF 100 * current >= 80 * target THEN "on_track"
    ELSE IF 100 * current >= 55 * target THEN "needs_support"
    ELSE "at_risk"

\* a text that is blank after trimming: nothing but spaces
IsBlank(text) == \A k \in 1..Len(text) : text[k] = " "

\* the increments of ratings 1..5
IncrementOfRating == << 2, 3, 5, 6, 8 >>

Selection ==
    << selectedRole, selectedTherapistId, selectedParentId, selectedDonorId,
       selectedChildId >>

GoalsOf(i) == children[i].therapyGoals

\* C1: in every reachable state the status of every goal of every child is
\* the tier of its own current/target ratio.
C1_StatusMatchesRatio ==
    \A i \in 1..Len(children) :
        \A j \in 1..Len(GoalsOf(i)) :
            GoalsOf(i)[j].status = TierOf(GoalsOf(i)[j].current, GoalsOf(i)[j].target)

\* C1 witness: a logged session has moved goal g2 of c1 from 50 to exactly
\* 55 of 100, from at_risk into needs_support.
C1_Witness ==
    /\ LoggedSessions(children) = 1
    /\ \E i \in 1..Len(children) :
          \E j \in 1..Len(GoalsOf(i)) :
              /\ GoalsOf(i)[j].id = "g2"
              /\ GoalsOf(i)[j].current = 55
              /\ GoalsOf(i)[j].target = 100
              /\ GoalsOf(i)[j].status = "needs_support"

\* C2 (as claimed): whenever a child is displayed, it is one of the children
\* visible under the active role and actor.
C2_DisplayedChildIsVisible ==
    resolvedChildId # "" => resolvedChildId \in Ids(filteredChildren)

\* C3: submitting the log form with no goal selected changes neither the
\* roster nor the family updates nor the selection.
C3_EmptyGoalSetIsNoOp ==
    [][ (form.key # "" /\ form.selectedGoalIds = << >> /\ SubmitSession)
            => UNCHANGED << children, familyUpdates, Selection >> ]_vars

\* C3 witness: the form of a child that has goals, all of them deselected,
\* has just been submitted and handleSubmit returned early.
C3_Witness ==
    /\ earlyReturn = "handleSubmit"
    /\ form.key # ""
    /\ form.selectedGoalIds = << >>
    /\ ChildById(children, form.key).therapyGoals # << >>

\* C4: a step that logs a session for a child (its history grows by one)
\* changes, for the goals the session names, only current and status, to
\* min(target, current + increment of the rating) and the tier of that value,
\* and leaves the child's other goals identical.
C4_SessionAdvancesAddressedGoals ==
    [][ \A i \in 1..Len(children) :
          Len(children'[i].sessionHistory) = Len(children[i].sessionHistory) + 1
          => LET session == Head(children'[i].sessionHistory)
                 before  == children[i].therapyGoals
                 after   == children'[i].therapyGoals
             IN  /\ session.rating \in 1..5
                 /\ Len(after) = Len(before)
                 /\ \A j \in 1..Len(before) :
                       IF Includes(session.goalsWorkedOn, before[j].id)
                       THEN LET next == Min(before[j].target,
                                            before[j].current
                                              + IncrementOfRating[session.rating])
                            IN  after[j] = [before[j] EXCEPT
                                              !.current = next,
                                              !.status = TierOf(next, before[j].target)]
                       ELSE after[j] = before[j] ]_vars

\* C4 witness: a rating-5 session naming only g1 took it from 90 to 98 of 100,
\* on_track, and left g2 of the same child at 50.
C4_Witness ==
    \E i \in 1..Len(children) :
        /\ children[i].sessionHistory # << >>
        /\ Head(children[i].sessionHistory).id # 0
        /\ Head(children[i].sessionHistory).rating = 5
        /\ Head(children[i].sessionHistory).goalsWorkedOn = << "g1" >>
        /\ Len(GoalsOf(i)) = 2
        /\ GoalsOf(i)[1] = Goal("g1", 98, 100, "on_track")
        /\ GoalsOf(i)[2] = Goal("g2", 50, 100, "at_risk")

NonCenterRoles == { "therapist", "parent", "donor" }

ProfilesOfRole(role) ==
    CASE role = "therapist" -> therapists
      [] role = "parent" -> parents
      [] role = "donor" -> donors

ActiveIdOfRole(role) ==
    CASE role = "therapist" -> selectedTherapistId
      [] role = "parent" -> selectedParentId
      [] role = "donor" -> selectedDonorId

\* the least of a non-empty set of numbers
Least(S) == CHOOSE n \in S : \A m \in S : n <= m

\* C5: a switch to a non-center role with a non-empty profile list makes it
\* the active role, keeps its active actor if the list holds it and takes the
\* first profile otherwise, and focuses the first child of that actor's list
\* that the roster holds; when the roster holds none of them, the displayed
\* child is the roster's first.
C5_RoleSwitchFocusesFirstExistingChild ==
    [][ \A role \in NonCenterRoles :
          (ProfilesOfRole(role) # << >> /\ RoleSelectTo(role))
          => LET profiles == ProfilesOfRole(role)
                 actorId  == IF ActiveIdOfRole(role) \in Ids(profiles)
                             THEN ActiveIdOfRole(role)
                             ELSE profiles[1].id
                 listed   == profiles[FindIndexById(profiles, actorId)].childIds
                 existing == { k \in 1..Len(listed) : listed[k] \in Ids(children) }
             IN  /\ selectedRole' = role
                 /\ ActiveIdOfRole(role)' = actorId
                 /\ IF existing # {}
                    THEN selectedChildId' = listed[Least(existing)]
                    ELSE resolvedChildId' = FirstIdOrEmpty(children) ]_vars

\* C5 witness: the parent role is active, the active parent lists c2 and c5,
\* the roster lacks c2, and c5 is focused.
C5_Witness ==
    /\ selectedRole = "parent"
    /\ ChildIdsOf(parents, selectedParentId) = << "c2", "c5" >>
    /\ "c2" \notin Ids(children)
    /\ selectedChildId = "c5"

\* C6: a log-form submit whose focus is blank after trimming, and a family
\* update whose message is blank after trimming, change neither the roster
\* nor the family updates nor the selection.
C6_BlankTextIsNoOp ==
    [][ ( \/ \E focus \in FocusTexts, notes \in NoteTexts,
                rating \in Ratings, date \in FormDates :
                  IsBlank(focus) /\ SubmitSessionWith(focus, notes, rating, date)
          \/ \E message \in MessageTexts :
                  IsBlank(message) /\ SubmitFamilyUpdateWith(message) )
        => UNCHANGED << children, familyUpdates, Selection >> ]_vars

\* C6 witness: a form with goals selected was submitted with a blank focus
\* and handleAddSession returned early.
C6_Witness ==
    /\ earlyReturn = "handleAddSession"
    /\ form.selectedGoalIds # << >>

\* C7: no child has a family update at startup; an update with a non-blank
\* message puts a new entry in front of the child's previous list and leaves
\* the other children's lists and the roster alone; one with a blank message
\* leaves every list as it was.
C7_FamilyUpdatesPrepend ==
    /\ \A c \in Ids(children) : UpdatesOf(familyUpdates, c) = << >>
    /\ [][ \A message \in MessageTexts :
             SubmitFamilyUpdateWith(message)
             => LET c   == resolvedChildId
                    old == UpdatesOf(familyUpdates, c)
                IN  IF IsBlank(message)
                    THEN familyUpdates' = familyUpdates
                    ELSE /\ c \in DOMAIN familyUpdates'
                         /\ Len(familyUpdates'[c]) = Len(old) + 1
                         /\ Tail(familyUpdates'[c]) = old
                         /\ ~IsBlank(Head(familyUpdates'[c]).message)
                         /\ \A n \in 1..Len(old) :
                               old[n].id # Head(familyUpdates'[c]).id
                         /\ \A k \in Ids(children) \ {c} :
                               UpdatesOf(familyUpdates', k) = UpdatesOf(familyUpdates, k)
                         /\ children' = children ]_vars

\* C7 witness: a child has two updates, the newer one first, and a blank
\* message submitted afterwards has left them in place.
C7_Witness ==
    /\ earlyReturn = "handleAddFamilyUpdate"
    /\ \E c \in DOMAIN familyUpdates :
          /\ Len(familyUpdates[c]) = 2
          /\ familyUpdates[c][1].id > familyUpdates[c][2].id

\* C8: role switch, actor switch, child pick and family update leave the
\* roster as it was; a step that changes the roster logs a session.
C8_OnlyAddSessionChangesRoster ==
    [][ /\ ( RoleSelect \/ TherapistChange \/ ParentChange \/ DonorChange
               \/ ChildPick \/ SubmitFamilyUpdate )
           => children' = children
        /\ children' # children
           => \E i \in 1..Len(children) :
                 Len(children'[i].sessionHistory)
                    = Len(children[i].sessionHistory) + 1 ]_vars

\* C8 witness: after a session was logged and a family update posted, the
\* donor role is active and the roster still holds the logged session.
C8_Witness ==
    /\ selectedRole = "donor"
    /\ LoggedSessions(children) = 1
    /\ PostedUpdates(familyUpdates) = 1

\* C9: reclassify leaves current = min(target, newCurrent) and the status of
\* the three-tier rule, the boundaries 0.80 and 0.55 belonging to the higher
\* tier.
C9_ReclassifyTiers ==
    probe.applied
    => /\ probe.goal.current = Min(probe.goal.target, probe.newCurrent)
       /\ probe.goal.status = TierOf(probe.goal.current, probe.goal.target)
       /\ 5 * probe.goal.current = 4 * probe.goal.target
             => probe.goal.status = "on_track"
       /\ 20 * probe.goal.current = 11 * probe.goal.target
             => probe.goal.status = "needs_support"
       /\ 5 * (probe.goal.current + 1) = 4 * probe.goal.target
             => probe.goal.status # "on_track"
       /\ 20 * (probe.goal.current + 1) = 11 * probe.goal.target
             => probe.goal.status = "at_risk"

\* C9 witness: a goal reclassified with newCurrent 11 against target 20
\* (ratio exactly 0.55) is needs_support.
C9_Witness ==
    /\ probe.applied
    /\ probe.goal.target = 20
    /\ probe.goal.current = 11
    /\ probe.newCurrent = 11
    /\ probe.goal.status = "needs_support"

\* the supported children of a donor, as indices into the roster
SupportedBy(donor) ==
    { i \in 1..Len(children) : Includes(donor.childIds, children[i].id) }

RECURSIVE ProductOfGoalCounts(_)
ProductOfGoalCounts(S) ==
    IF S = {} THEN 1
    ELSE LET i == CHOOSE x \in S : TRUE
         IN  Len(GoalsOf(i)) * ProductOfGoalCounts(S \ {i})

RECURSIVE ScaledMeans(_, _)
ScaledMeans(S, scale) ==
    IF S = {} THEN 0
    ELSE LET i == CHOOSE x \in S : TRUE
         IN  SumCurrent(GoalsOf(i)) * (scale \div Len(GoalsOf(i)))
               + ScaledMeans(S \ {i}, scale)

\* the donor average the claim describes: the mean over the supported
\* children of each child's mean current, rounded; 0 when the donor supports
\* no roster child or a supported child has no goals
GuardedDonorAverage(donor) ==
    LET S == SupportedBy(donor)
    IN  IF S = {} \/ \E i \in S : GoalsOf(i) = << >> THEN 0
        ELSE LET scale == ProductOfGoalCounts(S)
             IN  (2 * ScaledMeans(S, scale) + scale * Cardinality(S))
                    \div (2 * scale * Cardinality(S))

\* C10 (as claimed): every donor's average progress is the guarded value:
\* a number, and 0 when a supported child has no goals.
C10_DonorAverageGuarded ==
    \A k \in 1..Len(donors) :
        DonorAverageProgress(donors[k], children) = Num(GuardedDonorAverage(donors[k]))

\* C10, the part the code keeps: a donor none of whose supported children
\* lacks goals gets the rounded mean of means, and 0 when it supports nobody.
C10_DonorAverageWhenAllHaveGoals ==
    \A k \in 1..Len(donors) :
        (\A i \in SupportedBy(donors[k]) : GoalsOf(i) # << >>)
        => DonorAverageProgress(donors[k], children)
              = Num(GuardedDonorAverage(donors[k]))

\* every goal of the roster, as a (child index, goal index) pair
GoalSlots ==
    UNION { { << i, j >> : j \in 1..Len(GoalsOf(i)) } : i \in 1..Len(children) }

RECURSIVE SumOfCurrent(_)
SumOfCurrent(slots) ==
    IF slots = {} THEN 0
    ELSE LET slot == CHOOSE x \in slots : TRUE
         IN  GoalsOf(slot[1])[slot[2]].current + SumOfCurrent(slots \ {slot})

\* the integers nearest to num/den (den > 0): those within one half of it
NearestIntegers(num, den) ==
    { n \in 0..(num + 1) : 2 * den * n - 2 * num <= den /\ 2 * num - 2 * den * n <= den }

\* C11: in every reachable state the average goal progress shown is an
\* integer nearest to the unweighted mean of current over all goals of all
\* children of the roster, and 0 when the roster has no goal.
C11_AverageGoalProgressIsRoundedMean ==
    IF GoalSlots = {} THEN metrics.averageGoalProgress = 0
    ELSE metrics.averageGoalProgress
            \in NearestIntegers(SumOfCurrent(GoalSlots), Cardinality(GoalSlots))

\* C11 witness: a logged session has brought three goals to a total of 215,
\* a mean of 71.67, and the dashboard shows 72.
C11_Witness ==
    /\ LoggedSessions(children) = 1
    /\ Cardinality(GoalSlots) = 3
    /\ SumOfCurrent(GoalSlots) = 215
    /\ metrics.averageGoalProgress = 72

\* C12 (as claimed): the displayed child is the active child if the roster
\* holds it and the current filter shows it, otherwise the first child of the
\* filtered list, otherwise the first child of the roster, otherwise none.
C12_ResolvedChildIsPresentAndVisible ==
    resolvedChildId =
        IF selectedChildId \in Ids(children) /\ selectedChildId \in Ids(filteredChildren)
        THEN selectedChildId
        ELSE IF filteredChildren # << >> THEN filteredChildren[1].id
        ELSE FirstIdOrEmpty(children)

\* the first id of a child-id list that the roster holds, the roster's first
\* child when it holds none of them
FirstExistingOrRosterFirst(listed) ==
    LET existing == { k \in 1..Len(listed) : listed[k] \in Ids(children) }
    IN  IF existing # {} THEN listed[Least(existing)] ELSE FirstIdOrEmpty(children)

\* C13: an actor switch within the therapist, parent or donor role to actor A
\* makes A the active actor of that role and focuses the first child of A's
\* list that the roster holds (the roster's first child when it holds none),
\* whichever child was focused before; role, roster and family updates stay.
C13_ActorSwitchFocusesFirstExistingChild ==
    [][ /\ \A k \in 1..Len(therapists) :
              (handleTherapistChange(therapists[k].id) /\ Render(form))
              => /\ selectedTherapistId' = therapists[k].id
                 /\ selectedChildId' = FirstExistingOrRosterFirst(therapists[k].childIds)
                 /\ UNCHANGED << selectedRole, selectedParentId, selectedDonorId,
                                 children, familyUpdates >>
        /\ \A k \in 1..Len(parents) :
              (handleParentChange(parents[k].id) /\ Render(form))
              => /\ selectedParentId' = parents[k].id
                 /\ selectedChildId' = FirstExistingOrRosterFirst(parents[k].childIds)
                 /\ UNCHANGED << selectedRole, selectedTherapistId, selectedDonorId,
                                 children, familyUpdates >>
        /\ \A k \in 1..Len(donors) :
              (handleDonorChange(donors[k].id) /\ Render(form))
              => /\ selectedDonorId' = donors[k].id
                 /\ selectedChildId' = FirstExistingOrRosterFirst(donors[k].childIds)
                 /\ UNCHANGED << selectedRole, selectedTherapistId, selectedParentId,
                                 children, familyUpdates >> ]_vars

\* C13 witness: in the parent role the second parent is active, whose list
\* starts with c2, and c2 is focused although c1 is the roster's first child.
C13_Witness ==
    /\ selectedRole = "parent"
    /\ selectedParentId = "p2"
    /\ ChildIdsOf(parents, "p2") = << "c2", "c1" >>
    /\ FirstIdOrEmpty(children) = "c1"
    /\ selectedChildId = "c2"

\* C14: a role switch to center leaves the active therapist, parent and donor
\* ids unchanged, keeps an active child id that names a roster child, and
\* replaces any other by the roster's first child.
C14_CenterSwitchRevalidatesChild ==
    [][ RoleSelectTo("center")
        => /\ selectedRole' = "center"
           /\ UNCHANGED << selectedTherapistId, selectedParentId, selectedDonorId >>
           /\ selectedChildId' = IF selectedChildId \in Ids(children)
                                 THEN selectedChildId
                                 ELSE FirstIdOrEmpty(children) ]_vars

\* C14 witness: back in the center role with the second parent still active
\* and its child c2 still focused, although c1 is the roster's first child.
C14_Witness ==
    /\ selectedRole = "center"
    /\ selectedParentId = "p2"
    /\ FirstIdOrEmpty(children) = "c1"
    /\ selectedChildId = "c2"
    /\ DOMAIN familyUpdates = { "c2" }

\* an id no roster child carries
AbsentChildId == "c0"

\* C15: a log-form submit that passes both checks makes the history of the
\* displayed child the new session followed by its previous history, leaves
\* that child's upcoming sessions and every other child's record unchanged;
\* and adding a session under an id no roster child carries yields the
\* roster unchanged.
C15_SessionIsPrependedToItsChildOnly ==
    /\ [][ \A focus \in FocusTexts, notes \in NoteTexts, rating \in Ratings,
              date \in FormDates :
              ( /\ form.key # ""
                /\ form.selectedGoalIds # << >>
                /\ ~IsBlank(focus)
                /\ SubmitSessionWith(focus, notes, rating, date) )
              => /\ Len(children') = Len(children)
                 /\ \A i \in 1..Len(children) :
                       IF children[i].id = resolvedChildId
                       THEN /\ Len(children'[i].sessionHistory)
                                 = Len(children[i].sessionHistory) + 1
                            /\ Tail(children'[i].sessionHistory)
                                 = children[i].sessionHistory
                            /\ Head(children'[i].sessionHistory).rating = rating
                            /\ Head(children'[i].sessionHistory).date = date
                            /\ Head(children'[i].sessionHistory).goalsWorkedOn
                                 = form.selectedGoalIds
                            /\ \A k \in 1..Len(children[i].sessionHistory) :
                                  Head(children'[i].sessionHistory).id
                                     # children[i].sessionHistory[k].id
                            /\ children'[i].upcomingSessions = children[i].upcomingSessions
                            /\ children'[i].id = children[i].id
                            /\ children'[i].therapists = children[i].therapists
                       ELSE children'[i] = children[i] ]_vars
    /\ [](\A rating \in Ratings :
             RosterWithSession(children, AbsentChildId,
                 Session(createClientId(LoggedSessions(children)), Today, << "a" >>,
                         << "g1" >>, rating, NotesPlaceholder, "t1")) = children)

\* C15 witness: c1 holds the session just logged in front of the session of
\* the snapshot, and still has its upcoming session.
C15_Witness ==
    \E i \in 1..Len(children) :
        /\ children[i].id = "c1"
        /\ Len(children[i].sessionHistory) = 2
        /\ children[i].sessionHistory[1].id # 0
        /\ children[i].sessionHistory[2].id = 0
        /\ Len(children[i].upcomingSessions) = 1

\* C16: reclassifying the result of a reclassification with the same
\* newCurrent yields that result again.
C16_ReclassifyIsIdempotent ==
    probe.applied => Reclassify(probe.goal, probe.newCurrent) = probe.goal

\* C16 witness: a goal reclassified with a newCurrent strictly between 0 and
\* its target, which a second application must leave where it is.
C16_Witness ==
    /\ probe.applied
    /\ probe.newCurrent > 0
    /\ probe.newCurrent < probe.goal.target
    /\ probe.goal.current = probe.newCurrent

\* C17: in every reachable state every session of every child's history
\* names at least one goal, and only goals of the child that owns it.
C17_SessionGoalsBelongToOwner ==
    \A i \in 1..Len(children) :
        \A k \in 1..Len(children[i].sessionHistory) :
            LET named == children[i].sessionHistory[k].goalsWorkedOn
            IN  /\ named # << >>
                /\ \A n \in 1..Len(named) : named[n] \in Ids(GoalsOf(i))

\* C17 witness: after the form showed c1 with its goals g1 and g2 preselected,
\* the second therapist took over, c2 came into focus, and the session logged
\* for c2 names g3, the goal of c2.
C17_Witness ==
    \E i \in 1..Len(children) :
        /\ children[i].id = "c2"
        /\ children[i].sessionHistory # << >>
        /\ Head(children[i].sessionHistory).id # 0
        /\ Head(children[i].sessionHistory).therapistId = "t2"
        /\ Head(children[i].sessionHistory).goalsWorkedOn = << "g3" >>
        /\ Ids(GoalsOf(1)) = { "g1", "g2" }

\* C18: in every reachable state every goal of every child has
\* 0 <= current <= target (every goal of the initial snapshots has).
C18_CurrentStaysWithinTarget ==
    \A i \in 1..Len(children) :
        \A j \in 1..Len(GoalsOf(i)) :
            /\ 0 <= GoalsOf(i)[j].current
            /\ GoalsOf(i)[j].current <= GoalsOf(i)[j].target

\* C18 witness: a session of rating 5 was logged on a goal that stood at 14
\* of 20; 14 + 8 exceeds the target and the goal stands at 20.
C18_Witness ==
    \E i \in 1..Len(children) :
        /\ children[i].sessionHistory # << >>
        /\ Head(children[i].sessionHistory).id # 0
        /\ Head(children[i].sessionHistory).rating = 5
        /\ Head(children[i].sessionHistory).goalsWorkedOn = << "g1" >>
        /\ GoalsOf(i) = << Goal("g1", 20, 20, "on_track") >>
        /\ Len(parents) = 2

\* C19: in every reachable state, so also right after a session was logged,
\* the goals-needing-support figure shown is the number of goals of the
\* current roster whose status is needs_support or at_risk.
C19_GoalsNeedingSupportIsCurrent ==
    metrics.atRiskGoals =
        Cardinality({ slot \in GoalSlots :
                        GoalsOf(slot[1])[slot[2]].status
                            \in { "needs_support", "at_risk" } })

\* C19 witness: the session just logged took g3 from needs_support to
\* on_track, and the figure went from two goals to one.
C19_Witness ==
    /\ LoggedSessions(children) = 1
    /\ \E slot \in GoalSlots :
          GoalsOf(slot[1])[slot[2]] = Goal("g3", 80, 100, "on_track")
    /\ Cardinality(GoalSlots) = 3
    /\ metrics.atRiskGoals = 1

\* C20: picking a child badge makes the picked id the active child id,
\* whatever it was, and leaves role, active therapist, parent and donor ids,
\* roster and family updates unchanged.
C20_ChildPickOnlySetsChild ==
    [][ \A k \in 1..Len(children) :
          (ChildBadgeSelect(children[k].id) /\ Render(form))
          => /\ selectedChildId' = children[k].id
             /\ UNCHANGED << selectedRole, selectedTherapistId, selectedParentId,
                             selectedDonorId, children, familyUpdates >> ]_vars

\* C20 witness: in the therapist role, with the first therapist active whose
\* list starts with c1, c2 is focused and its form is shown.
C20_Witness ==
    /\ selectedRole = "therapist"
    /\ selectedTherapistId = "t1"
    /\ ChildIdsOf(therapists, "t1") = << "c1", "c2" >>
    /\ selectedChildId = "c2"
    /\ form.key = "c2"

\* every session of the roster, as a (child index, history index) pair
SessionSlots ==
    UNION { { << i, k >> : k \in 1..Len(children[i].sessionHistory) } :
            i \in 1..Len(children) }

\* days between a date and the evaluation time (negative for a future date)
AgeInDays(date) == Today - date

\* C21: the sessions-this-week figure is the number of sessions, over all
\* children, dated no more than 7 days before the evaluation time: one dated
\* exactly 7 days before it counts, an earlier one does not, a future one
\* does; and logging a session dated within that window raises the figure by
\* exactly one, logging an earlier one leaves it.
C21_SessionsThisWeekWindow ==
    /\ [](metrics.thisWeekSessions =
            Cardinality({ slot \in SessionSlots :
                AgeInDays(children[slot[1]].sessionHistory[slot[2]].date) <= 7 }))
    /\ [][ \A i \in 1..Len(children) :
              ( /\ Len(children') = Len(children)
                /\ Len(children'[i].sessionHistory) = Len(children[i].sessionHistory) + 1 )
              => metrics'.thisWeekSessions =
                    IF AgeInDays(Head(children'[i].sessionHistory).date) <= 7
                    THEN metrics.thisWeekSessions + 1
                    ELSE metrics.thisWeekSessions ]_vars

\* C21 witness: the roster holds a session dated exactly 7 days ago and a
\* session logged with tomorrow's date, and the figure is 2.
C21_Witness ==
    /\ \E slot \in SessionSlots :
          children[slot[1]].sessionHistory[slot[2]].date = Today - 7
    /\ \E slot \in SessionSlots :
          /\ children[slot[1]].sessionHistory[slot[2]].id # 0
          /\ children[slot[1]].sessionHistory[slot[2]].date = Today + 1
    /\ Cardinality(SessionSlots) = 2
    /\ metrics.thisWeekSessions = 2

\* prev is what is left of next after dropping its first entries
IsSuffix(prev, next) ==
    /\ Len(prev) <= Len(next)
    /\ SubSeq(next, Len(next) - Len(prev) + 1, Len(next)) = prev

\* C22: no transition deletes anything: the roster keeps its children in
\* their order, every child's session history and every child's list of
\* family updates only grow at the front, and the therapist, parent and donor
\* lists stay as they are.
C22_NothingIsDeleted ==
    [][ /\ [i \in 1..Len(children') |-> children'[i].id]
             = [i \in 1..Len(children) |-> children[i].id]
        /\ \A i \in 1..Len(children) :
              IsSuffix(children[i].sessionHistory, children'[i].sessionHistory)
        /\ \A childId \in DOMAIN familyUpdates :
              /\ childId \in DOMAIN familyUpdates'
              /\ IsSuffix(familyUpdates[childId], familyUpdates'[childId])
        /\ UNCHANGED << therapists, parents, donors >> ]_vars

\* C22 witness: two updates were posted for c2 and a session was logged, and
\* the session c2 had at startup is still in its history.
C22_Witness ==
    /\ "c2" \in DOMAIN familyUpdates
    /\ Len(familyUpdates["c2"]) = 2
    /\ LoggedSessions(children) = 1
    /\ \E i \in 1..Len(children) :
          /\ children[i].id = "c2"
          /\ Len(children[i].sessionHistory) = 1
          /\ children[i].sessionHistory[1].id = 0

\* C23: a session addressing a goal never lowers its current, raises it by
\* at least 2 or up to the target while it is below the target, and leaves a
\* goal that stands at its target and on_track as it is; with sessions
\* addressing it logged again and again, the goal eventually stands at its
\* target with status on_track and stays there.
C23_ProgressIsMonotoneAndConverges ==
    /\ [][ /\ probe'.goal.target = probe.goal.target
           /\ probe'.goal.current >= probe.goal.current
           /\ probe.goal.current < probe.goal.target
                 => /\ probe'.goal.current > probe.goal.current
                    /\ probe'.goal.current
                          >= Min(probe.goal.target, probe.goal.current + 2)
           /\ (probe.goal.current = probe.goal.target /\ probe.goal.status = "on_track")
                 => probe'.goal = probe.goal ]_vars
    /\ <>[](probe.goal.current = probe.goal.target /\ probe.goal.status = "on_track")

\* C23 witness: a session took a goal that stood one short of its target to
\* the target, the increment of at least 2 being cut off there.
C23_Witness ==
    /\ probe.applied
    /\ probe.goal.current = probe.goal.target
    /\ probe.goal.status = "on_track"
    /\ probe.goal.target = MaxTarget
    /\ probe.newCurrent = probe.goal.target + 1

\* C24 (as claimed): every session logged through the form carries the id of
\* a therapist who is in the therapist list of the child that holds it.
C24_LoggedSessionTherapistIsAssigned ==
    \A slot \in SessionSlots :
        LET session == children[slot[1]].sessionHistory[slot[2]]
        IN  session.id # 0
            => Includes(children[slot[1]].therapists, session.therapistId)

\* C25: a step changes the active actor id of a role only if it ends in that
\* role (a switch to it, or an actor switch within it); a switch to a role
\* whose active actor is in its profile list keeps that actor, and focuses
\* the first child of that actor's list that the roster holds (the roster's
\* first child when it holds none), not the child focused before.
C25_ActorIsRememberedPerRole ==
    [][ /\ \A role \in NonCenterRoles :
              ActiveIdOfRole(role)' # ActiveIdOfRole(role) => selectedRole' = role
        /\ \A role \in NonCenterRoles :
              ( /\ RoleSelectTo(role)
                /\ ActiveIdOfRole(role) \in Ids(ProfilesOfRole(role)) )
              => /\ ActiveIdOfRole(role)' = ActiveIdOfRole(role)
                 /\ selectedChildId' =
                       FirstExistingOrRosterFirst(
                           ChildIdsOf(ProfilesOfRole(role), ActiveIdOfRole(role))) ]_vars

\* C25 witness: in the donor role with the second donor active, the second
\* parent, chosen earlier in the parent role, is still the active parent, and
\* the donor's first child c1 is focused.
C25_Witness ==
    /\ selectedRole = "donor"
    /\ selectedDonorId = "d2"
    /\ selectedParentId = "p2"
    /\ ChildIdsOf(donors, "d2") = << "c1" >>
    /\ selectedChildId = "c1"

=============================================================================
